---- MODULE Spec2Model ----
(***************************************************************************)
(* A model of js/engine.js: the game loop (main / update / render), the    *)
(* collision pass, the enemy respawn pass and the GameOver / play-again    *)
(* handlers.  JavaScript runs every callback to completion, so the event   *)
(* handlers (click, keyup) are atomic actions taken only while no frame    *)
(* callback is running; one frame callback (main) is split into its        *)
(* phases, in the order main and update call them.                         *)
(*                                                                         *)
(* The entity classes (Enemy, Player, hearts, gems) and the keyup handler  *)
(* live in app.js; their behaviour is modelled from the specification.     *)
(***************************************************************************)
EXTENDS Integers, Sequences, FiniteSets

VARIABLES
    pc,             \* where the engine is: "loading", "idle", or a phase of main
    scheduled,      \* number of frame callbacks requested and not yet run
    phases,         \* phases of the current (or last) tick, in execution order
    allEnemies,     \* sequence of [x, y]
    player,         \* [x, y]
    allHearts,      \* sequence of heart objects ("first", "second", "third")
    gems,           \* [number, point]
    nr,             \* replay counter
    src,            \* selected avatar sprite
    startModal,     \* .modal.start displayed
    endModal,       \* .modal.end displayed
    results,        \* .results displayed
    clickListeners, \* sequence of click listeners on document, registration order
    keyupListeners, \* set of keyup listeners on document
    gameHead,       \* children appended to .gameHead
    gemHead,        \* children appended to .gemHead
    pointHead,      \* children appended to .pointHead
    resetCalls      \* number of times reset() has been invoked

vars == <<pc, scheduled, phases, allEnemies, player, allHearts, gems, nr,
          src, startModal, endModal, results, clickListeners, keyupListeners,
          gameHead, gemHead, pointHead, resetCalls>>

(***************************************************************************)
(* Bounds of the model.                                                    *)
(***************************************************************************)
NumEnemies == 2
MaxReplays == 2
MaxGems == 1

(***************************************************************************)
(* Program constants.                                                      *)
(***************************************************************************)
SpawnX == 203
SpawnY == 391
RightEdge == 500
OffscreenX == -150
NumXLanes == 5
NumYLanes == 3

\* app.js (modelled from the specification)
PlayerWidth == 101
PlayerHeight == 171
EnemyWidth == 101
EnemyHeight == 171
Speed == 100
StepX == 101
StepY == 83
MinX == 1
MaxX == 405
MinY == -24
MaxY == 391
GemValue == 10
xposition == <<-500, -400, -300, -200, -100>>
yposition == <<60, 143, 226>>

\* Date.now() counts milliseconds; dt = (now - lastTime) / 1000.0
MsPerSecond == 1000

\* Inputs: now - lastTime in milliseconds, the keys, the click targets and
\* the values of Math.random, in tenths
DtValues == {6000}
RandomValues == {3, 7}
Keys == {"left", "up", "right", "down"}
ClickTargets == {"image_boy", "other"}
Spawn == [x |-> SpawnX, y |-> SpawnY]
Hearts == <<"first", "second", "third">>

\* Math.floor(Math.random() * n)
RandomIndex(n) == {(r * n) \div 10 : r \in RandomValues}

\* One index drawn from idx for each index of arr in needed (the draw is
\* fixed at the other indexes, where it is not used)
DrawsFrom(arr, needed, idx) ==
    LET fixed == CHOOSE k \in idx : TRUE
    IN {f \in [1..Len(arr) -> idx] :
           \A i \in 1..Len(arr) : i \notin needed => f[i] = fixed}

\* One draw of Math.random for each index of arr in needed
Draws(arr, needed, n) == DrawsFrom(arr, needed, RandomIndex(n))

\* JavaScript array indexing is 0-based
At(arr, i) == arr[i + 1]

\* Array.prototype.splice(start, deleteCount, ...items) for 0 <= start
Splice(arr, start, deleteCount, items) ==
    LET s == IF start > Len(arr) THEN Len(arr) ELSE start
        d == IF deleteCount > Len(arr) - s THEN Len(arr) - s ELSE deleteCount
    IN SubSeq(arr, 1, s) \o items \o SubSeq(arr, s + d + 1, Len(arr))

\* addEventListener: a listener already registered is not added again
AddListener(ls, f) ==
    IF \E i \in 1..Len(ls) : ls[i] = f THEN ls ELSE Append(ls, f)

\* removeEventListener
RemoveListener(ls, f) == SelectSeq(ls, LAMBDA g : g # f)

Registered(ls, f) == \E i \in 1..Len(ls) : ls[i] = f

(***************************************************************************)
(* Collision pass (checkCollisions) and reset.  The pass works on the part *)
(* of the state it can touch, a record w.                                  *)
(***************************************************************************)
World == [player |-> player, allHearts |-> allHearts, endModal |-> endModal,
          clickListeners |-> clickListeners, keyupListeners |-> keyupListeners,
          resetCalls |-> resetCalls]

\* mutant: the comparisons let touching rectangles collide
OverlapOrTouch(enemy, p) ==
    /\ enemy.x <= p.x + PlayerWidth
    /\ enemy.x + EnemyWidth >= p.x
    /\ enemy.y <= p.y + PlayerHeight
    /\ enemy.y + EnemyHeight >= p.y

\* the condition of the if in checkCollisions
Overlap(enemy, p) ==
    /\ enemy.x < p.x + PlayerWidth
    /\ enemy.x + EnemyWidth > p.x
    /\ enemy.y < p.y + PlayerHeight
    /\ enemy.y + EnemyHeight > p.y

\* mutant: reset() does not display the end modal
resetNoModal(w) ==
    [w EXCEPT !.clickListeners = AddListener(w.clickListeners, "playAgain"),
              !.keyupListeners = w.keyupListeners \ {"keyup"},
              !.resetCalls = w.resetCalls + 1]

\* mutant: reset() leaves the keyup listener registered
resetKeepsKeyup(w) ==
    [w EXCEPT !.endModal = TRUE,
              !.clickListeners = AddListener(w.clickListeners, "playAgain"),
              !.resetCalls = w.resetCalls + 1]

\* reset(): show the end modal, register playAgain, unregister keyup
reset(w) ==
    [w EXCEPT !.endModal = TRUE,
              !.clickListeners = AddListener(w.clickListeners, "playAgain"),
              !.keyupListeners = w.keyupListeners \ {"keyup"},
              !.resetCalls = w.resetCalls + 1]

\* mutant: with two hearts left, splice(0, 2) removes both
RemoveHeartBoth(w) ==
    IF Len(w.allHearts) = 3
    THEN [w EXCEPT !.allHearts = Splice(w.allHearts, 2, 1, <<>>)]
    ELSE IF Len(w.allHearts) = 2
    THEN [w EXCEPT !.allHearts = Splice(w.allHearts, 0, 2, <<>>)]
    ELSE IF Len(w.allHearts) = 1
    THEN reset([w EXCEPT !.allHearts = Splice(w.allHearts, 0, 1, <<>>)])
    ELSE w

\* mutant: the last branch is an else, so reset() runs again at 0 hearts
RemoveHeartResetAgain(w) ==
    IF Len(w.allHearts) = 3
    THEN [w EXCEPT !.allHearts = Splice(w.allHearts, 2, 1, <<>>)]
    ELSE IF Len(w.allHearts) = 2
    THEN [w EXCEPT !.allHearts = Splice(w.allHearts, 1, 1, <<>>)]
    ELSE reset([w EXCEPT !.allHearts = Splice(w.allHearts, 0, 1, <<>>)])

\* mutant: reset() is called in the branch of two hearts as well
RemoveHeartResetEarly(w) ==
    IF Len(w.allHearts) = 3
    THEN [w EXCEPT !.allHearts = Splice(w.allHearts, 2, 1, <<>>)]
    ELSE IF Len(w.allHearts) = 2
    THEN reset([w EXCEPT !.allHearts = Splice(w.allHearts, 1, 1, <<>>)])
    ELSE IF Len(w.allHearts) = 1
    THEN reset([w EXCEPT !.allHearts = Splice(w.allHearts, 0, 1, <<>>)])
    ELSE w

\* the if / else-if chain on allHearts.length
RemoveHeart(w) ==
    IF Len(w.allHearts) = 3
    THEN [w EXCEPT !.allHearts = Splice(w.allHearts, 2, 1, <<>>)]
    ELSE IF Len(w.allHearts) = 2
    THEN [w EXCEPT !.allHearts = Splice(w.allHearts, 1, 1, <<>>)]
    ELSE IF Len(w.allHearts) = 1
    THEN reset([w EXCEPT !.allHearts = Splice(w.allHearts, 0, 1, <<>>)])
    ELSE w

\* mutant: a collision resets player.y only
CollideOneKeepsColumn(enemy, w) ==
    IF Overlap(enemy, w.player)
    THEN RemoveHeart([w EXCEPT !.player = [x |-> w.player.x, y |-> SpawnY]])
    ELSE w

\* mutant: a collision takes a heart but leaves the player where it is
CollideOneStays(enemy, w) ==
    IF Overlap(enemy, w.player)
    THEN RemoveHeart(w)
    ELSE w

\* mutant: the player is sent to the spawn point before the test
CollideOneAlwaysRespawns(enemy, w) ==
    IF Overlap(enemy, w.player)
    THEN RemoveHeart([w EXCEPT !.player = Spawn])
    ELSE [w EXCEPT !.player = Spawn]

\* the body of the forEach callback, for one enemy
CollideOne(enemy, w) ==
    IF Overlap(enemy, w.player)
    THEN RemoveHeart([w EXCEPT !.player = Spawn])
    ELSE w

\* allEnemies.forEach from index i (1-based) on
RECURSIVE CollideFrom(_, _, _)
CollideFrom(enemies, i, w) ==
    IF i > Len(enemies) THEN w
    ELSE CollideFrom(enemies, i + 1, CollideOne(enemies[i], w))

(***************************************************************************)
(* Entities (app.js).                                                      *)
(***************************************************************************)
\* Enemy.prototype.update(dt): x advances by speed * dt, with dt the d
\* milliseconds in seconds
EnemyUpdate(enemy, d) ==
    [enemy EXCEPT !.x = enemy.x + (Speed * d) \div MsPerSecond]

\* gems.update(): a gem may be collected
GemsUpdate(g, collect) ==
    IF collect /\ g.number < MaxGems
    THEN [g EXCEPT !.number = g.number + 1, !.point = g.point + GemValue]
    ELSE g

\* player.handleInput(key)
HandleInput(p, key) ==
    CASE key = "left"  -> IF p.x - StepX >= MinX THEN [p EXCEPT !.x = p.x - StepX] ELSE p
      [] key = "right" -> IF p.x + StepX <= MaxX THEN [p EXCEPT !.x = p.x + StepX] ELSE p
      [] key = "up"    -> IF p.y - StepY >= MinY THEN [p EXCEPT !.y = p.y - StepY] ELSE p
      [] key = "down"  -> IF p.y + StepY <= MaxY THEN [p EXCEPT !.y = p.y + StepY] ELSE p
      [] OTHER -> p

\* mutant: the last assignment to enemy.x is missing
RespawnOneOffscreen(enemy, ry, rx) ==
    IF enemy.x > RightEdge
    THEN LET e1 == [enemy EXCEPT !.x = OffscreenX]
         IN [e1 EXCEPT !.y = At(yposition, ry)]
    ELSE enemy

\* the body of the forEach callback of makeEnemies, for one enemy
RespawnOne(enemy, ry, rx) ==
    IF enemy.x > RightEdge
    THEN LET e1 == [enemy EXCEPT !.x = OffscreenX]
             e2 == [e1 EXCEPT !.y = At(yposition, ry)]
         IN [e2 EXCEPT !.x = At(xposition, rx)]
    ELSE enemy

(***************************************************************************)
(* The order of the phases of one tick.                                    *)
(***************************************************************************)
\* mutant: update calls makeEnemies before checkCollisions
NextPhaseRespawnFirst(p) ==
    CASE p = "updateEntities"  -> "makeEnemies"
      [] p = "makeEnemies"     -> "checkCollisions"
      [] p = "checkCollisions" -> "render"
      [] p = "render"          -> "idle"

\* update: updateEntities, checkCollisions, makeEnemies; main: update,
\* render, then lastTime = now and requestAnimationFrame, which ends the tick
NextPhase(p) ==
    CASE p = "updateEntities"  -> "checkCollisions"
      [] p = "checkCollisions" -> "makeEnemies"
      [] p = "makeEnemies"     -> "render"
      [] p = "render"          -> "idle"

\* app.js creates the enemies, each in one of its lanes
InitialEnemies ==
    [1..NumEnemies ->
        [x : {At(xposition, i) : i \in RandomIndex(NumXLanes)},
         y : {At(yposition, i) : i \in RandomIndex(NumYLanes)}]]

Init ==
    /\ pc = "loading"
    /\ scheduled = 0
    /\ phases = <<>>
    /\ allEnemies \in InitialEnemies
    /\ player = Spawn
    /\ allHearts = Hearts
    /\ gems = [number |-> 0, point |-> 0]
    /\ nr = 0
    /\ src = "unset"
    /\ startModal = FALSE
    /\ endModal = FALSE
    /\ results = FALSE
    /\ clickListeners = <<>>
    /\ keyupListeners = {"keyup"}
    /\ gameHead = <<>>
    /\ gemHead = <<>>
    /\ pointHead = <<>>
    /\ resetCalls = 0

\* updateEntities(dt): every enemy's update, gems.update; the hearts' and the
\* player's update change nothing
UpdateEntities(d, collect) ==
    /\ allEnemies' = [i \in 1..Len(allEnemies) |-> EnemyUpdate(allEnemies[i], d)]
    /\ gems' = GemsUpdate(gems, collect)
    /\ phases' = <<"updateEntities">>
    /\ pc' = NextPhase("updateEntities")

\* Resources.onReady(init): start(), lastTime = Date.now(), and main() up to
\* and including updateEntities, with dt = 0
init ==
    /\ pc = "loading"
    /\ startModal' = TRUE
    /\ clickListeners' = AddListener(clickListeners, "select")
    /\ \E collect \in BOOLEAN : UpdateEntities(0, collect)
    /\ UNCHANGED <<scheduled, player, allHearts, nr, src, endModal, results,
                   keyupListeners, gameHead, gemHead, pointHead, resetCalls>>

\* the browser runs a requested frame: main computes dt, one of dts, and
\* calls update, which calls updateEntities(dt)
Frame(dts) ==
    /\ pc = "idle"
    /\ scheduled > 0
    /\ scheduled' = scheduled - 1
    /\ \E d \in dts, collect \in BOOLEAN : UpdateEntities(d, collect)
    /\ UNCHANGED <<player, allHearts, nr, src, startModal, endModal, results,
                   clickListeners, keyupListeners, gameHead, gemHead,
                   pointHead, resetCalls>>

main == Frame(DtValues)

checkCollisions ==
    /\ pc = "checkCollisions"
    /\ LET w == CollideFrom(allEnemies, 1, World)
       IN /\ player' = w.player
          /\ allHearts' = w.allHearts
          /\ endModal' = w.endModal
          /\ clickListeners' = w.clickListeners
          /\ keyupListeners' = w.keyupListeners
          /\ resetCalls' = w.resetCalls
    /\ phases' = Append(phases, "checkCollisions")
    /\ pc' = NextPhase("checkCollisions")
    /\ UNCHANGED <<scheduled, allEnemies, gems, nr, src, startModal,
                   results, gameHead, gemHead, pointHead>>

\* the enemies the respawn check relocates
BeyondEdge == {i \in 1..Len(allEnemies) : allEnemies[i].x > RightEdge}

\* makeEnemies, with the lane indexes drawn from ys and xs
Respawn(ys, xs) ==
    /\ pc = "makeEnemies"
    /\ \E ry \in DrawsFrom(allEnemies, BeyondEdge, ys),
          rx \in DrawsFrom(allEnemies, BeyondEdge, xs) :
          allEnemies' = [i \in 1..Len(allEnemies) |->
                            RespawnOne(allEnemies[i], ry[i], rx[i])]
    /\ phases' = Append(phases, "makeEnemies")
    /\ pc' = NextPhase("makeEnemies")
    /\ UNCHANGED <<scheduled, player, allHearts, gems, nr, src, startModal,
                   endModal, results, clickListeners, keyupListeners,
                   gameHead, gemHead, pointHead, resetCalls>>

makeEnemies == Respawn(RandomIndex(NumYLanes), RandomIndex(NumXLanes))

\* mutant: main does not request the next frame
renderNoRequest ==
    /\ pc = "render"
    /\ phases' = Append(Append(phases, "render"), "requestAnimationFrame")
    /\ pc' = NextPhase("render")
    /\ UNCHANGED <<scheduled, allEnemies, player, allHearts, gems, nr, src,
                   startModal, endModal, results, clickListeners,
                   keyupListeners, gameHead, gemHead, pointHead, resetCalls>>

\* mutant: drawing an enemy moves it
renderMovesEnemies ==
    /\ pc = "render"
    /\ phases' = Append(Append(phases, "render"), "requestAnimationFrame")
    /\ scheduled' = scheduled + 1
    /\ pc' = NextPhase("render")
    /\ allEnemies' = [i \in 1..Len(allEnemies) |->
                         IF allEnemies[i].x < 0
                         THEN [allEnemies[i] EXCEPT !.x = 0] ELSE allEnemies[i]]
    /\ UNCHANGED <<player, allHearts, gems, nr, src, startModal,
                   endModal, results, clickListeners, keyupListeners,
                   gameHead, gemHead, pointHead, resetCalls>>

\* render() only draws; main then sets lastTime and requests the next frame
render ==
    /\ pc = "render"
    /\ phases' = Append(Append(phases, "render"), "requestAnimationFrame")
    /\ scheduled' = scheduled + 1
    /\ pc' = NextPhase("render")
    /\ UNCHANGED <<allEnemies, player, allHearts, gems, nr, src, startModal,
                   endModal, results, clickListeners, keyupListeners,
                   gameHead, gemHead, pointHead, resetCalls>>

(***************************************************************************)
(* Event handlers.                                                         *)
(***************************************************************************)
\* the part of the state the click listeners can touch
ClickWorld ==
    [allEnemies |-> allEnemies, allHearts |-> allHearts, gems |-> gems,
     nr |-> nr, src |-> src, startModal |-> startModal, endModal |-> endModal,
     results |-> results, clickListeners |-> clickListeners,
     keyupListeners |-> keyupListeners, gameHead |-> gameHead,
     gemHead |-> gemHead, pointHead |-> pointHead]

\* select(e): document.querySelector('.modal') is the first .modal of the
\* page, the start modal
select(w, target) ==
    IF target = "image_princess"
    THEN [w EXCEPT !.src = "images/char-princess-girl.png", !.startModal = FALSE]
    ELSE IF target = "image_catgirl"
    THEN [w EXCEPT !.src = "images/char-cat-girl.png", !.startModal = FALSE]
    ELSE IF target = "image_boy"
    THEN [w EXCEPT !.src = "images/char-boy.png", !.startModal = FALSE]
    ELSE w

\* mutant: playAgain does not unregister itself
playAgainStaysRegistered(w, rx) ==
    LET n == w.nr + 1
    IN [w EXCEPT
          !.endModal = FALSE,
          !.keyupListeners = w.keyupListeners \cup {"keyup"},
          !.allHearts = Splice(w.allHearts, 0, 0, Hearts),
          !.allEnemies = [i \in 1..Len(w.allEnemies) |->
                            [w.allEnemies[i] EXCEPT !.x = At(xposition, rx[i])]],
          !.gems = [number |-> 0, point |-> 0],
          !.nr = n,
          !.gameHead = Append(w.gameHead, <<"Game ", n>>),
          !.gemHead = Append(w.gemHead, w.gems.number),
          !.pointHead = Append(w.pointHead, w.gems.point),
          !.results = TRUE]

\* mutant: playAgain resets gems.number but not gems.point
playAgainKeepsPoints(w, rx) ==
    LET n == w.nr + 1
    IN [w EXCEPT
          !.endModal = FALSE,
          !.clickListeners = RemoveListener(w.clickListeners, "playAgain"),
          !.keyupListeners = w.keyupListeners \cup {"keyup"},
          !.allHearts = Splice(w.allHearts, 0, 0, Hearts),
          !.allEnemies = [i \in 1..Len(w.allEnemies) |->
                            [w.allEnemies[i] EXCEPT !.x = At(xposition, rx[i])]],
          !.gems = [number |-> 0, point |-> w.gems.point],
          !.nr = n,
          !.gameHead = Append(w.gameHead, <<"Game ", n>>),
          !.gemHead = Append(w.gemHead, w.gems.number),
          !.pointHead = Append(w.pointHead, w.gems.point),
          !.results = TRUE]

\* mutant: playAgain resets gems.point and gems.number before it writes the
\* record
playAgainRecordsAfterReset(w, rx) ==
    LET n == w.nr + 1
    IN [w EXCEPT
          !.endModal = FALSE,
          !.clickListeners = RemoveListener(w.clickListeners, "playAgain"),
          !.keyupListeners = w.keyupListeners \cup {"keyup"},
          !.allHearts = Splice(w.allHearts, 0, 0, Hearts),
          !.allEnemies = [i \in 1..Len(w.allEnemies) |->
                            [w.allEnemies[i] EXCEPT !.x = At(xposition, rx[i])]],
          !.gems = [number |-> 0, point |-> 0],
          !.nr = n,
          !.gameHead = Append(w.gameHead, <<"Game ", n>>),
          !.gemHead = Append(w.gemHead, 0),
          !.pointHead = Append(w.pointHead, 0),
          !.results = TRUE]

\* playAgain(e); rx[i] is the lane index drawn for enemy i.  The gem's new
\* position, which nothing in engine.js reads but the drawing, is not kept.
playAgain(w, rx) ==
    LET n == w.nr + 1
    IN [w EXCEPT
          !.endModal = FALSE,
          !.clickListeners = RemoveListener(w.clickListeners, "playAgain"),
          !.keyupListeners = w.keyupListeners \cup {"keyup"},
          !.allHearts = Splice(w.allHearts, 0, 0, Hearts),
          !.allEnemies = [i \in 1..Len(w.allEnemies) |->
                            [w.allEnemies[i] EXCEPT !.x = At(xposition, rx[i])]],
          !.gems = [number |-> 0, point |-> 0],
          !.nr = n,
          !.gameHead = Append(w.gameHead, <<"Game ", n>>),
          !.gemHead = Append(w.gemHead, w.gems.number),
          !.pointHead = Append(w.pointHead, w.gems.point),
          !.results = TRUE]

\* the listeners of a click on the document run in registration order; the
\* list is the one registered when the event is dispatched
RECURSIVE Dispatch(_, _, _, _, _)
Dispatch(ls, i, w, target, rx) ==
    IF i > Len(ls) THEN w
    ELSE Dispatch(ls, i + 1,
                  IF ls[i] = "select" THEN select(w, target)
                  ELSE IF ls[i] = "playAgain" THEN playAgain(w, rx)
                  ELSE w,
                  target, rx)

click ==
    /\ pc \in {"loading", "idle"}
    /\ Registered(clickListeners, "playAgain") => nr < MaxReplays
    /\ \E target \in ClickTargets,
          rx \in Draws(allEnemies,
                       IF Registered(clickListeners, "playAgain")
                       THEN 1..Len(allEnemies) ELSE {},
                       NumXLanes) :
          LET w == Dispatch(clickListeners, 1, ClickWorld, target, rx)
          IN /\ allEnemies' = w.allEnemies
             /\ allHearts' = w.allHearts
             /\ gems' = w.gems
             /\ nr' = w.nr
             /\ src' = w.src
             /\ startModal' = w.startModal
             /\ endModal' = w.endModal
             /\ results' = w.results
             /\ clickListeners' = w.clickListeners
             /\ keyupListeners' = w.keyupListeners
             /\ gameHead' = w.gameHead
             /\ gemHead' = w.gemHead
             /\ pointHead' = w.pointHead
    /\ UNCHANGED <<pc, scheduled, phases, player, resetCalls>>

\* a keyup event: the keyup listener, when registered, moves the player
keyup ==
    /\ pc \in {"loading", "idle"}
    /\ \E key \in Keys :
          player' = IF "keyup" \in keyupListeners
                    THEN HandleInput(player, key) ELSE player
    /\ UNCHANGED <<pc, scheduled, phases, allEnemies, allHearts, gems, nr,
                   src, startModal, endModal, results, clickListeners,
                   keyupListeners, gameHead, gemHead, pointHead, resetCalls>>

Next ==
    \/ init
    \/ main
    \/ checkCollisions
    \/ makeEnemies
    \/ render
    \/ click
    \/ keyup

Spec == Init /\ [][Next]_vars

\* The browser eventually runs a requested frame, and a callback that has
\* started runs to its end.
SpecLive ==
    /\ Spec
    /\ WF_vars(main)
    /\ WF_vars(checkCollisions)
    /\ WF_vars(makeEnemies)
    /\ WF_vars(render)

(***************************************************************************)
(* The collision test on its own: one enemy and the player, placed around  *)
(* every edge of the player's rectangle, and one collision pass.           *)
(***************************************************************************)
EdgeOffsets(size) ==
    {-size - 1, -size, -size + 1, 0, size - 1, size, size + 1}

InitCollisions ==
    /\ pc = "checkCollisions"
    /\ scheduled = 0
    /\ phases = <<"updateEntities">>
    /\ \E p \in {Spawn, [x |-> SpawnX - StepX, y |-> SpawnY - 3 * StepY]},
          dx \in EdgeOffsets(EnemyWidth), dy \in EdgeOffsets(EnemyHeight) :
          /\ player = p
          /\ allEnemies = <<[x |-> p.x + dx, y |-> p.y + dy]>>
    /\ allHearts = Hearts
    /\ gems = [number |-> 0, point |-> 0]
    /\ nr = 0
    /\ src = "unset"
    /\ startModal = TRUE
    /\ endModal = FALSE
    /\ results = FALSE
    /\ clickListeners = <<"select">>
    /\ keyupListeners = {"keyup"}
    /\ gameHead = <<>>
    /\ gemHead = <<>>
    /\ pointHead = <<>>
    /\ resetCalls = 0

SpecCollisions == InitCollisions /\ [][checkCollisions]_vars

(***************************************************************************)
(* The motion and the respawn of the enemies on their own: frames of half  *)
(* a second and of six seconds, and every lane drawn.  No click and no    *)
(* key: the start menu stays displayed and the player at the spawn point.  *)
(***************************************************************************)
FineDtValues == {500, 6000}

\* every value of Math.floor(Math.random() * n)
AnyIndex(n) == 0..(n - 1)

\* between the first tick and the second, every enemy in one of its lanes
InitRespawn ==
    /\ pc = "idle"
    /\ scheduled = 1
    /\ phases = <<"updateEntities", "checkCollisions", "makeEnemies",
                  "render", "requestAnimationFrame">>
    /\ allEnemies \in
          [1..NumEnemies ->
              [x : {At(xposition, i) : i \in AnyIndex(NumXLanes)},
               y : {At(yposition, i) : i \in AnyIndex(NumYLanes)}]]
    /\ player = Spawn
    /\ allHearts = Hearts
    /\ gems = [number |-> 0, point |-> 0]
    /\ nr = 0
    /\ src = "unset"
    /\ startModal = TRUE
    /\ endModal = FALSE
    /\ results = FALSE
    /\ clickListeners = <<"select">>
    /\ keyupListeners = {"keyup"}
    /\ gameHead = <<>>
    /\ gemHead = <<>>
    /\ pointHead = <<>>
    /\ resetCalls = 0

mainFine == Frame(FineDtValues)

makeEnemiesAnyLane == Respawn(AnyIndex(NumYLanes), AnyIndex(NumXLanes))

NextRespawn ==
    \/ mainFine
    \/ checkCollisions
    \/ makeEnemiesAnyLane
    \/ render

SpecRespawn == InitRespawn /\ [][NextRespawn]_vars

(***************************************************************************)
(* Properties.                                                             *)
(***************************************************************************)
Min(a, b) == IF a < b THEN a ELSE b
Max(a, b) == IF a > b THEN a ELSE b

HeartCount == Len(allHearts)

\* some enemy overlaps the player where it stands
SomeOverlap == \E i \in 1..Len(allEnemies) : Overlap(allEnemies[i], player)

\* C1: the heart collection always has 0, 1, 2 or 3 elements, also after
\* playAgain has inserted three hearts.
HeartsInRange == HeartCount \in {0, 1, 2, 3}

\* a game has been lost and restarted, and the hearts are back to three
HeartsRefilled == nr > 0 /\ HeartCount = 3 /\ pc = "idle"

\* The number of overlaps one collision pass detects: the first enemy that
\* overlaps the player where it stands, and every later enemy that overlaps
\* the spawn point, where the first detection has put the player.
Detected ==
    LET hit == {i \in 1..Len(allEnemies) : Overlap(allEnemies[i], player)}
    IN IF hit = {} THEN 0
       ELSE LET f == CHOOSE i \in hit : \A j \in hit : i <= j
            IN 1 + Cardinality({j \in (f + 1)..Len(allEnemies) :
                                   Overlap(allEnemies[j], Spawn)})

PlayAgainRan ==
    \/ nr' # nr
    \/ endModal /\ ~endModal'
    \/ Registered(clickListeners, "playAgain")
         /\ ~Registered(clickListeners', "playAgain")
    \/ gameHead' # gameHead

\* C2: between two play-again confirmations the heart count only goes down:
\* a collision pass lowers it by one per detected overlap, never below 0,
\* and nothing else but playAgain changes it.
HeartsOnlyDecrease ==
    [][/\ pc = "checkCollisions" =>
            Len(allHearts') = HeartCount - Min(HeartCount, Detected)
       /\ ~PlayAgainRan => /\ Len(allHearts') <= HeartCount
                           /\ Len(allHearts') >= 0
       /\ (~PlayAgainRan /\ pc # "checkCollisions") => allHearts' = allHearts
      ]_vars

\* a pass has just taken a heart: an enemy still overlaps the spawn point,
\* where the pass has put the player
HeartJustLost ==
    /\ pc = "makeEnemies"
    /\ HeartCount \in {1, 2}
    /\ player = Spawn
    /\ SomeOverlap

\* C3: reset() is invoked exactly when the heart count reaches 0, once per
\* game; a collision detected while the count is 0 removes no heart and does
\* not invoke reset() again.
ResetOncePerGame ==
    /\ [](resetCalls = nr + (IF HeartCount = 0 THEN 1 ELSE 0))
    /\ [][/\ (resetCalls' # resetCalls) <=> (HeartCount > 0 /\ Len(allHearts') = 0)
          /\ resetCalls' \in {resetCalls, resetCalls + 1}
          /\ (pc = "checkCollisions" /\ HeartCount = 0) =>
                (allHearts' = allHearts /\ resetCalls' = resetCalls)
         ]_vars

\* a collision pass is about to detect an overlap while the count is 0
CollisionInGameOver ==
    /\ pc = "checkCollisions"
    /\ HeartCount = 0
    /\ resetCalls = nr + 1
    /\ SomeOverlap

\* C4: right after playAgain the heart count is 3, gems.number and gems.point
\* are 0 and nr is one larger than before.
PlayAgainRestores ==
    [][PlayAgainRan =>
          /\ Len(allHearts') = 3
          /\ gems'.number = 0
          /\ gems'.point = 0
          /\ nr' = nr + 1
      ]_vars

\* playAgain has run on a game in which a gem had been collected
ReplayedAfterGem ==
    /\ nr = 1
    /\ gemHead = <<1>>
    /\ gems.number = 0
    /\ gems.point = 0
    /\ HeartCount = 3

\* C5: the end modal is displayed exactly when the heart collection is empty.
EndModalIffNoHearts == endModal <=> HeartCount = 0

\* the last heart is gone and the end modal is displayed
GameOverShown == endModal /\ HeartCount = 0 /\ pc = "idle"

\* C6: the keyup listener is registered exactly when the end modal is not
\* displayed, and no key event moves the player while it is displayed.
KeysOffInGameOver ==
    /\ []((("keyup" \in keyupListeners) <=> ~endModal))
    /\ [][(endModal /\ pc = "idle" /\ pc' = "idle") => player' = player]_vars

\* GameOver: the modal is displayed and the keyup listener is gone
KeysRemoved == endModal /\ keyupListeners = {} /\ pc = "idle"

\* the two rectangles overlap strictly on both axes: on each axis the larger
\* of the two low ends lies below the smaller of the two high ends
StrictOverlap(enemy, p) ==
    /\ Max(enemy.x, p.x) < Min(enemy.x + EnemyWidth, p.x + PlayerWidth)
    /\ Max(enemy.y, p.y) < Min(enemy.y + EnemyHeight, p.y + PlayerHeight)

\* C7: the collision pass treats an enemy and the player as colliding (it
\* removes a heart) if and only if their rectangles overlap strictly on both
\* axes; rectangles that touch at an edge or are apart do not collide.
CollisionIffOverlap ==
    [][pc = "checkCollisions" =>
          LET colliding == \E i \in 1..Len(allEnemies) :
                              StrictOverlap(allEnemies[i], player)
          IN /\ (Len(allHearts') < HeartCount) <=> (HeartCount > 0 /\ colliding)
             /\ colliding => player' = Spawn
             /\ ~colliding => (player' = player /\ allHearts' = allHearts)
      ]_vars

\* a pass has run on an enemy whose right edge touched the player's left edge
\* and has taken no heart
TouchingIsNoCollision ==
    /\ pc = "makeEnemies"
    /\ HeartCount = 3
    /\ \E i \in 1..Len(allEnemies) : allEnemies[i].x + EnemyWidth = player.x
                                     /\ allEnemies[i].y = player.y

\* C8: a collision pass that detects an overlap leaves the player at the
\* spawn point, whatever the heart count, 0 included.
CollisionSendsToSpawn ==
    [][(pc = "checkCollisions" /\ SomeOverlap) => player' = Spawn]_vars

\* a pass is about to detect an overlap with the player away from the spawn
\* point, in another column
CollisionAwayFromSpawn ==
    /\ pc = "checkCollisions"
    /\ player.x # SpawnX
    /\ player.y # SpawnY
    /\ SomeOverlap

LaneXs == {xposition[i] : i \in 1..NumXLanes}
LaneYs == {yposition[i] : i \in 1..NumYLanes}

EnemyBeyondEdge ==
    /\ pc = "makeEnemies"
    /\ \E i \in 1..Len(allEnemies) : allEnemies[i].x > RightEdge

TickOrder ==
    <<"updateEntities", "checkCollisions", "makeEnemies", "render",
      "requestAnimationFrame">>

\* C10: every tick runs updateEntities, checkCollisions, makeEnemies, render
\* in this order and only then requests exactly one next frame.
TickInOrder ==
    /\ Len(phases) <= Len(TickOrder)
    /\ phases = SubSeq(TickOrder, 1, Len(phases))
    /\ pc = "idle" => (phases = TickOrder /\ scheduled = 1)
    /\ pc = "render" => phases = SubSeq(TickOrder, 1, 3)
    /\ pc # "idle" => scheduled = 0

\* a whole tick has run after a replay
TickCompleted == pc = "idle" /\ phases = TickOrder /\ scheduled = 1 /\ nr > 0

\* C11: once started the loop never stops: between two callbacks exactly one
\* frame is requested, and unless init never runs, Update and Render run
\* again and again, forever (so from every state another tick eventually
\* happens, in GameOver and under the start menu too).
LoopNeverStops ==
    /\ []((pc = "idle") => (scheduled = 1))
    /\ \/ <>[](pc = "loading")
       \/ /\ []<>(pc = "checkCollisions")
          /\ []<>(pc = "render")

\* between two ticks, with the end modal and the start menu both displayed
IdleInGameOverUnderMenu ==
    /\ pc = "idle"
    /\ scheduled = 1
    /\ endModal
    /\ startModal
    /\ phases = TickOrder

\* C12: no Update or Render runs, and no heart is lost, before an avatar
\* has been selected.
NoTickBeforeAvatar ==
    src = "unset" => (phases = <<>> /\ pc = "loading" /\ HeartCount = 3)

\* C13: playAgain appends one record, made of the new nr and of gems.number
\* and gems.point as they were before it reset them, and changes no earlier
\* record; nothing else touches the records; the number of records is nr and
\* nr never decreases.
HistoryAppendOnly ==
    /\ [](Len(gameHead) = nr /\ Len(gemHead) = nr /\ Len(pointHead) = nr)
    /\ [][/\ PlayAgainRan =>
                /\ gameHead' = Append(gameHead, <<"Game ", nr + 1>>)
                /\ gemHead' = Append(gemHead, gems.number)
                /\ pointHead' = Append(pointHead, gems.point)
          /\ ~PlayAgainRan =>
                UNCHANGED <<gameHead, gemHead, pointHead>>
          /\ nr' >= nr
         ]_vars

\* two games have been recorded, the first with a gem collected
TwoRecords ==
    /\ nr = 2
    /\ Len(gemHead) = 2
    /\ gemHead[1] = 1
    /\ pointHead[1] = GemValue
    /\ gameHead = <<(<<"Game ", 1>>), (<<"Game ", 2>>)>>

\* the enemies that overlap the player where it stands
Hit == {i \in 1..Len(allEnemies) : Overlap(allEnemies[i], player)}

\* the first of them, in array order
FirstHit == CHOOSE i \in Hit : \A j \in Hit : i <= j

\* the later enemies that overlap the spawn point
LaterAtSpawn ==
    {j \in (FirstHit + 1)..Len(allEnemies) : Overlap(allEnemies[j], Spawn)}

\* C14 as stated: two enemies that both overlap the player's position at the
\* start of a collision pass cost two hearts in that pass.
TwoOverlapsTwoHearts ==
    [][(pc = "checkCollisions" /\ Cardinality(Hit) = 2 /\ HeartCount >= 2) =>
          Len(allHearts') = HeartCount - 2
      ]_vars

\* C14: when two or more enemies overlap the player's position at the start
\* of a pass, a heart goes for the first of them, which sends the player to
\* the spawn point, and one more for each later enemy that overlaps the
\* spawn point: the pass takes two hearts only if a later enemy does.
LaterOverlapsCountAtSpawn ==
    [][(pc = "checkCollisions" /\ Cardinality(Hit) >= 2) =>
          /\ Len(allHearts') =
                HeartCount - Min(HeartCount, 1 + Cardinality(LaterAtSpawn))
          /\ (LaterAtSpawn = {} /\ HeartCount > 0) =>
                Len(allHearts') = HeartCount - 1
      ]_vars

\* a pass is about to run with two enemies over the player, away from the
\* spawn point, and none of them over the spawn point
TwoOverAwayFromSpawn ==
    /\ pc = "checkCollisions"
    /\ HeartCount = 3
    /\ Cardinality(Hit) >= 2
    /\ LaterAtSpawn = {}
    /\ player # Spawn

\* a step of the Update phase: updateEntities (in init or main),
\* checkCollisions or makeEnemies
UpdateStep ==
    \/ pc \in {"loading", "idle"} /\ pc' = "checkCollisions"
    \/ pc = "checkCollisions"
    \/ pc = "makeEnemies"

\* a step of an event handler
EventStep == pc \in {"loading", "idle"} /\ pc' = pc

\* C15 as stated: positions, hearts and counters change only in the Update
\* phase.
OnlyUpdateWrites ==
    [][UpdateStep \/ UNCHANGED <<allEnemies, player, allHearts, gems, nr>>]_vars

\* C15: Render and the request of the next frame change no position, heart
\* or counter; outside the Update phase only the keyup handler, while it is
\* registered, changes the player's position, and only playAgain, while it is
\* registered, changes the enemies' x, the hearts, gems.number, gems.point
\* and nr.
WritersOutsideUpdate ==
    [][/\ pc = "render" =>
            UNCHANGED <<allEnemies, player, allHearts, gems, nr>>
       /\ (EventStep /\ player' # player) =>
            /\ "keyup" \in keyupListeners
            /\ UNCHANGED <<allEnemies, allHearts, gems, nr>>
       /\ (EventStep /\ <<allEnemies, allHearts, gems, nr>>
                           # <<allEnemies', allHearts', gems', nr'>>) =>
            /\ Registered(clickListeners, "playAgain")
            /\ PlayAgainRan
            /\ player' = player
            /\ \A i \in 1..Len(allEnemies) : allEnemies'[i].y = allEnemies[i].y
      ]_vars

\* after a replay, a key has moved the player between two ticks
MovedAfterReplay ==
    /\ pc = "idle"
    /\ nr > 0
    /\ HeartCount = 3
    /\ player # Spawn
    /\ gems.number = 0

\* C16: playAgain is registered exactly when no heart is left, so a click
\* while hearts remain changes no heart, counter, position or record.
PlayAgainOnlyInGameOver ==
    /\ [](Registered(clickListeners, "playAgain") <=> HeartCount = 0)
    /\ [][(EventStep /\ HeartCount > 0) =>
             /\ UNCHANGED <<allEnemies, allHearts, gems, nr,
                            gameHead, gemHead, pointHead>>
             /\ (player' # player) => UNCHANGED <<src, startModal>>
         ]_vars

\* playing again after a replay, with a heart lost and an avatar selected by
\* a click
PlayingAfterReplay ==
    /\ pc = "idle"
    /\ nr = 1
    /\ HeartCount = 2
    /\ src # "unset"
    /\ ~Registered(clickListeners, "playAgain")

\* C17: while no heart is left the player stands at the spawn point.
GameOverAtSpawn == HeartCount = 0 => player = Spawn

\* GameOver between two ticks, the player at the spawn point, in the second
\* game
SecondGameOver ==
    /\ pc = "idle"
    /\ HeartCount = 0
    /\ nr = 1
    /\ player = Spawn

\* C18: a collision pass in which no enemy overlaps the player changes
\* neither the player's position nor the hearts, the end modal or the
\* listeners.
NoOverlapNoChange ==
    [][(pc = "checkCollisions" /\ ~SomeOverlap) =>
          UNCHANGED <<player, allHearts, endModal, clickListeners,
                      keyupListeners, resetCalls>>
      ]_vars

\* a pass has just run and left the player away from the spawn point: it
\* has detected nothing
PassLeftPlayerAway ==
    /\ pc = "makeEnemies"
    /\ player # Spawn
    /\ HeartCount = 3

====
